---- MODULE Spec2Model ----
(***************************************************************************)
(* A model of whatsapp-mcp-server/main.py: the shared-secret gate, the     *)
(* route table, the passthrough endpoints, the outgoing webhook dispatcher *)
(* and the in-memory buffer of ingested webhook events.                    *)
(*                                                                         *)
(* Python values are represented as follows.  None is the token None, a    *)
(* value outside every universe of strings used below.  A dict is a        *)
(* function whose domain is its set of keys; dict keys are compared as     *)
(* Python compares them, exactly and case-sensitively.  A text body is a   *)
(* sequence of character codes.                                            *)
(***************************************************************************)
EXTENDS Integers, Sequences, FiniteSets, TLC

VARIABLES
    environ,           \* os.environ after load_dotenv (main.py:32)
    RECEIVED_EVENTS,   \* the deque of ingested events (main.py:49)
    clock,             \* number of datetime.utcnow() readings taken so far
    received,          \* number of requests counted against the bound of a specification
    requests,          \* id -> the request, for the exchanges kept
    responses,         \* id -> the response sent for that request
    inflight,          \* id -> the continuation of a handler suspended mid-way
    background_tasks,  \* id -> the task added by that request and not yet run
    bridge_calls,      \* log of the calls made into the whatsapp module
    http_calls,        \* log of the outgoing HTTP calls made through httpx
    built              \* _build_outgoing_headers applied on its own: the argument and the result

vars == <<environ, RECEIVED_EVENTS, clock, received, requests, responses, inflight,
          background_tasks, bridge_calls, http_calls, built>>

None == "<None>"

EmptyDict == [k \in {} |-> None]

\* Python truthiness of an Optional[str]
Truthy(s) == s # None /\ s # ""

Min(a, b) == IF a <= b THEN a ELSE b

Max(a, b) == IF a >= b THEN a ELSE b

\* dict.update: the keys of e overwrite those of d
dict_update(d, e) ==
    [k \in DOMAIN d \cup DOMAIN e |-> IF k \in DOMAIN e THEN e[k] ELSE d[k]]

\* d with d[k] = v assigned
dict_set(d, k, v) == dict_update(d, [x \in {k} |-> v])

(***************************************************************************)
(* Configuration read at import time                                       *)
(***************************************************************************)

\* os.environ.get(name): None when the variable is not set
environ_get(name) == environ[name]

WEBHOOK_API_KEY == environ_get("WEBHOOK_API_KEY")

OUTGOING_WEBHOOK_URL == environ_get("OUTGOING_WEBHOOK_URL")

OUTGOING_WEBHOOK_HEADERS == environ_get("OUTGOING_WEBHOOK_HEADERS")

OUTGOING_WEBHOOK_SECRET_HEADER ==
    IF environ_get("OUTGOING_WEBHOOK_SECRET_HEADER") = None
    THEN "X-Webhook-Api-Key"
    ELSE environ_get("OUTGOING_WEBHOOK_SECRET_HEADER")

OUTGOING_WEBHOOK_SECRET ==
    IF Truthy(environ_get("OUTGOING_WEBHOOK_SECRET"))
    THEN environ_get("OUTGOING_WEBHOOK_SECRET")
    ELSE WEBHOOK_API_KEY

\* The JSON texts the configuration is drawn from, with what json.loads makes
\* of each: a malformed text raises, a well-formed one yields a value of some type.
JsonMalformed == "{bad"

JsonList == "[1]"

JsonDictA == "{\"A\":\"1\"}"

JsonDictFull == "{\"A\":\"1\",\"Content-Type\":\"text/plain\",\"X-Webhook-Api-Key\":\"d\"}"

JsonEvent == "{\"event\":\"msg\"}"

json_loads(s) ==
    CASE s = JsonList     -> [raises |-> FALSE, isdict |-> FALSE, value |-> [k \in {"0"} |-> "1"]]
      [] s = JsonEvent    -> [raises |-> FALSE, isdict |-> TRUE,
                              value |-> [k \in {"event"} |-> "msg"]]
      [] s = JsonDictA    -> [raises |-> FALSE, isdict |-> TRUE,
                              value |-> [k \in {"A"} |-> "1"]]
      [] s = JsonDictFull -> [raises |-> FALSE, isdict |-> TRUE,
                              value |-> [k \in {"A", "Content-Type", "X-Webhook-Api-Key"} |->
                                           CASE k = "A" -> "1"
                                             [] k = "Content-Type" -> "text/plain"
                                             [] OTHER -> "d"]]
      [] OTHER            -> [raises |-> TRUE, isdict |-> FALSE, value |-> EmptyDict]

DEFAULT_OUTGOING_HEADERS ==
    IF ~Truthy(OUTGOING_WEBHOOK_HEADERS) THEN EmptyDict
    ELSE LET r == json_loads(OUTGOING_WEBHOOK_HEADERS)
         IN  IF r.raises \/ ~r.isdict THEN EmptyDict ELSE r.value

maxlen == 200

(***************************************************************************)
(* Security middleware                                                     *)
(***************************************************************************)

\* A path is the sequence of its segments: /chats/abc is <<"chats", "abc">>.
EXEMPT_PATHS == {<<"docs">>, <<"redoc">>, <<"openapi.json">>, <<"health">>}

\* A response: its status code and its JSON content, always an object.
\* An error detail is the sequence of the parts its text is formatted from.
JSONResponse(status_code, content) == [status_code |-> status_code, content |-> content]

HTTPException(status_code, detail) == JSONResponse(status_code, [detail |-> detail])

\* The middleware without the comparison: any header value passes
require_header_present(request) ==
    IF request.path \in EXEMPT_PATHS
    THEN [call_next |-> TRUE, response |-> JSONResponse(0, EmptyDict)]
    ELSE IF ~Truthy(WEBHOOK_API_KEY)
    THEN [call_next |-> FALSE,
          response |-> HTTPException(500, <<"Server misconfiguration: WEBHOOK_API_KEY not set">>)]
    ELSE IF request.key = None
    THEN [call_next |-> FALSE,
          response |-> HTTPException(401, <<"Missing X-Webhook-Api-Key header">>)]
    ELSE [call_next |-> TRUE, response |-> JSONResponse(0, EmptyDict)]

\* The middleware testing the key with "is None": an empty key counts as set
require_key_unless_none(request) ==
    IF request.path \in EXEMPT_PATHS
    THEN [call_next |-> TRUE, response |-> JSONResponse(0, EmptyDict)]
    ELSE IF WEBHOOK_API_KEY = None
    THEN [call_next |-> FALSE,
          response |-> HTTPException(500, <<"Server misconfiguration: WEBHOOK_API_KEY not set">>)]
    ELSE IF request.key = None
    THEN [call_next |-> FALSE,
          response |-> HTTPException(401, <<"Missing X-Webhook-Api-Key header">>)]
    ELSE IF request.key # WEBHOOK_API_KEY
    THEN [call_next |-> FALSE,
          response |-> HTTPException(403, <<"Invalid webhook API key">>)]
    ELSE [call_next |-> TRUE, response |-> JSONResponse(0, EmptyDict)]

\* The middleware: whether it calls call_next, and the response it returns
\* itself when it does not.
require_webhook_api_key(request) ==
    IF request.path \in EXEMPT_PATHS
    THEN [call_next |-> TRUE, response |-> JSONResponse(0, EmptyDict)]
    ELSE IF ~Truthy(WEBHOOK_API_KEY)
    THEN [call_next |-> FALSE,
          response |-> HTTPException(500, <<"Server misconfiguration: WEBHOOK_API_KEY not set">>)]
    ELSE IF request.key = None
    THEN [call_next |-> FALSE,
          response |-> HTTPException(401, <<"Missing X-Webhook-Api-Key header">>)]
    ELSE IF request.key # WEBHOOK_API_KEY
    THEN [call_next |-> FALSE,
          response |-> HTTPException(403, <<"Invalid webhook API key">>)]
    ELSE [call_next |-> TRUE, response |-> JSONResponse(0, EmptyDict)]

(***************************************************************************)
(* Requests and the route table                                            *)
(***************************************************************************)

\* WebhookTriggerRequest with its defaults.  An Optional[Dict] is a sequence
\* of length at most one: <<>> is None, <<d>> is the dict d.
WebhookTriggerRequest ==
    [target_url |-> None, method |-> "POST", payload |-> <<>>, headers |-> <<>>,
     query |-> <<>>, async_mode |-> TRUE, timeout_seconds |-> 10]

\* A request: its method, its path, the value of its X-Webhook-Api-Key
\* header (None when absent), its query parameters, the limit parameter of
\* /webhook/events, its raw body, and its body bound as WebhookTriggerRequest.
Request(method, path, key, params) ==
    [method |-> method, path |-> path, key |-> key, params |-> params,
     limit |-> 20, raw |-> "", payload |-> WebhookTriggerRequest]

\* dict(request.headers): header names arrive lower-cased
request_headers(request) ==
    IF request.key = None THEN EmptyDict
    ELSE [k \in {"x-webhook-api-key"} |-> request.key]

Route(method, pattern, endpoint) ==
    [method |-> method, pattern |-> pattern, endpoint |-> endpoint]

\* The routes in registration order: the documentation routes FastAPI adds
\* when the application object is built, then the decorated functions in
\* file order.
ROUTES == <<
    Route("GET",  <<"openapi.json">>,                        "openapi"),
    Route("GET",  <<"docs">>,                                "swagger_ui_html"),
    Route("GET",  <<"docs", "oauth2-redirect">>,             "swagger_ui_redirect"),
    Route("GET",  <<"redoc">>,                               "redoc_html"),
    Route("GET",  <<"health">>,                              "health"),
    Route("GET",  <<"contacts", "search">>,                  "search_contacts"),
    Route("GET",  <<"messages">>,                            "list_messages"),
    Route("GET",  <<"chats">>,                               "list_chats"),
    Route("GET",  <<"chats", "{chat_jid}">>,                 "get_chat"),
    Route("GET",  <<"chats", "direct-by-contact">>,          "get_direct_chat_by_contact"),
    Route("GET",  <<"contacts", "{jid}", "chats">>,          "get_contact_chats"),
    Route("GET",  <<"contacts", "{jid}", "last-interaction">>, "get_last_interaction"),
    Route("GET",  <<"messages", "{message_id}", "context">>, "get_message_context"),
    Route("POST", <<"messages", "send-text">>,               "send_message"),
    Route("POST", <<"messages", "send-file">>,               "send_file"),
    Route("POST", <<"messages", "send-audio">>,              "send_audio_message"),
    Route("POST", <<"media", "download">>,                   "download_media"),
    Route("POST", <<"webhook", "trigger">>,                  "webhook_trigger"),
    Route("POST", <<"webhook", "ingest">>,                   "webhook_ingest"),
    Route("GET",  <<"webhook", "events">>,                   "list_ingested_events") >>

\* A pattern segment written {name} binds one path segment
IsParam(segment) ==
    segment \in {"{chat_jid}", "{jid}", "{message_id}"}

path_matches(pattern, path) ==
    /\ Len(pattern) = Len(path)
    /\ \A i \in 1..Len(pattern) : IsParam(pattern[i]) \/ pattern[i] = path[i]

FullMatches(request) ==
    {i \in 1..Len(ROUTES) :
        path_matches(ROUTES[i].pattern, request.path) /\ ROUTES[i].method = request.method}

PartialMatches(request) ==
    {i \in 1..Len(ROUTES) : path_matches(ROUTES[i].pattern, request.path)}

SetMin(S) == CHOOSE x \in S : \A y \in S : x <= y

\* The router walks the routes in order and hands the request to the first
\* one that matches path and method; a path that matches under another
\* method only is answered 405, and no match at all 404.
route_of(request) ==
    IF FullMatches(request) # {} THEN ROUTES[SetMin(FullMatches(request))].endpoint
    ELSE IF PartialMatches(request) # {} THEN "405"
    ELSE "404"

(***************************************************************************)
(* Passthrough endpoints                                                   *)
(***************************************************************************)

PassthroughEndpoints ==
    {"search_contacts", "list_messages", "list_chats", "get_chat",
     "get_direct_chat_by_contact", "get_contact_chats", "get_last_interaction",
     "get_message_context", "send_message", "send_file", "send_audio_message",
     "download_media"}

\* What a call into the whatsapp module may do: return a value, return an
\* empty result (None, False or an empty path), or raise.
BridgeOutcomes == {"value", "none", "raise"}

\* A query or body parameter of the request, or its declared default
param(request, name, default) ==
    IF name \in DOMAIN request.params THEN request.params[name] ELSE default

\* The whatsapp function an endpoint calls and the arguments it passes
bridge_op(endpoint, request) ==
    CASE endpoint = "search_contacts" ->
           [op |-> "search_contacts",
            args |-> [k \in {"query"} |-> param(request, "query", "")]]
      [] endpoint = "list_messages" ->
           [op |-> "list_messages",
            args |-> [k \in {"after", "before", "sender_phone_number", "chat_jid", "query",
                              "limit", "page", "include_context", "context_before",
                              "context_after"} |->
                        CASE k = "limit" -> param(request, k, "20")
                          [] k = "page" -> param(request, k, "0")
                          [] k = "include_context" -> param(request, k, "true")
                          [] k \in {"context_before", "context_after"} -> param(request, k, "1")
                          [] OTHER -> param(request, k, None)]]
      [] endpoint = "list_chats" ->
           [op |-> "list_chats",
            args |-> [k \in {"query", "limit", "page", "include_last_message", "sort_by"} |->
                        CASE k = "query" -> param(request, k, None)
                          [] k = "limit" -> param(request, k, "20")
                          [] k = "page" -> param(request, k, "0")
                          [] k = "include_last_message" -> param(request, k, "true")
                          [] OTHER -> param(request, k, "last_active")]]
      [] endpoint = "get_chat" ->
           [op |-> "get_chat",
            args |-> [k \in {"chat_jid", "include_last_message"} |->
                        IF k = "chat_jid" THEN request.path[2]
                        ELSE param(request, k, "true")]]
      [] endpoint = "get_direct_chat_by_contact" ->
           [op |-> "get_direct_chat_by_contact",
            args |-> [k \in {"sender_phone_number"} |-> param(request, k, "")]]
      [] endpoint = "get_contact_chats" ->
           [op |-> "get_contact_chats",
            args |-> [k \in {"jid", "limit", "page"} |->
                        CASE k = "jid" -> request.path[2]
                          [] k = "limit" -> param(request, k, "20")
                          [] OTHER -> param(request, k, "0")]]
      [] endpoint = "get_last_interaction" ->
           [op |-> "get_last_interaction",
            args |-> [k \in {"jid"} |-> request.path[2]]]
      [] endpoint = "get_message_context" ->
           [op |-> "get_message_context",
            args |-> [k \in {"message_id", "before", "after"} |->
                        CASE k = "message_id" -> request.path[2]
                          [] k = "before" -> param(request, k, "5")
                          [] OTHER -> param(request, k, "5")]]
      [] endpoint = "send_message" ->
           [op |-> "send_message",
            args |-> [k \in {"recipient", "message"} |-> param(request, k, "")]]
      [] endpoint = "send_file" ->
           [op |-> "send_file",
            args |-> [k \in {"recipient", "media_path"} |-> param(request, k, "")]]
      [] endpoint = "send_audio_message" ->
           [op |-> "send_audio_message",
            args |-> [k \in {"recipient", "media_path"} |-> param(request, k, "")]]
      [] endpoint = "download_media" ->
           [op |-> "download_media",
            args |-> [k \in {"message_id", "chat_jid"} |-> param(request, k, "")]]

\* The response an endpoint makes of what the whatsapp function did
passthrough_response(endpoint, outcome) ==
    IF outcome = "raise" THEN HTTPException(500, <<"Internal Server Error">>)
    ELSE IF endpoint \in {"send_message", "send_file", "send_audio_message"}
    THEN JSONResponse(200, [success |-> (outcome = "value"), message |-> outcome])
    ELSE IF endpoint = "download_media"
    THEN IF outcome = "value"
         THEN JSONResponse(200, [success |-> TRUE, message |-> "Media downloaded successfully",
                                 file_path |-> outcome])
         ELSE JSONResponse(200, [success |-> FALSE, message |-> "Failed to download media"])
    ELSE IF endpoint = "list_messages"
    THEN IF outcome = "value" THEN JSONResponse(200, [output |-> outcome])
         ELSE JSONResponse(200, [messages |-> outcome])
    ELSE IF endpoint = "get_last_interaction"
    THEN JSONResponse(200, [output |-> outcome])
    ELSE JSONResponse(200, [result |-> outcome])

(***************************************************************************)
(* Outgoing webhook dispatcher                                             *)
(***************************************************************************)

\* Values that are not of type str are represented by these tokens
NonStrings == {"<int 7>"}

isinstance_str(v) == v \notin NonStrings

\* The headers with the secret set last, over the caller's overrides
build_headers_secret_last(override_headers) ==
    LET defaults == DEFAULT_OUTGOING_HEADERS
        withOverride ==
            IF override_headers # <<>> /\ DOMAIN override_headers[1] # {}
            THEN LET o == override_headers[1]
                     keep == {k \in DOMAIN o : isinstance_str(k) /\ isinstance_str(o[k])}
                 IN  dict_update(defaults, [k \in keep |-> o[k]])
            ELSE defaults
        withSecret ==
            IF Truthy(OUTGOING_WEBHOOK_SECRET)
            THEN dict_set(withOverride, OUTGOING_WEBHOOK_SECRET_HEADER, OUTGOING_WEBHOOK_SECRET)
            ELSE withOverride
    IN  IF "Content-Type" \notin DOMAIN withSecret
        THEN dict_set(withSecret, "Content-Type", "application/json")
        ELSE withSecret

\* override_headers is an Optional[Dict]: <<>> or <<d>>
_build_outgoing_headers(override_headers) ==
    LET defaults == DEFAULT_OUTGOING_HEADERS
        withSecret ==
            IF Truthy(OUTGOING_WEBHOOK_SECRET)
            THEN dict_set(defaults, OUTGOING_WEBHOOK_SECRET_HEADER, OUTGOING_WEBHOOK_SECRET)
            ELSE defaults
        withOverride ==
            IF override_headers # <<>> /\ DOMAIN override_headers[1] # {}
            THEN LET o == override_headers[1]
                     keep == {k \in DOMAIN o : isinstance_str(k) /\ isinstance_str(o[k])}
                 IN  dict_update(withSecret, [k \in keep |-> o[k]])
            ELSE withSecret
    IN  IF "Content-Type" \notin DOMAIN withOverride
        THEN dict_set(withOverride, "Content-Type", "application/json")
        ELSE withOverride

\* A response text of n characters: the sequence of its character codes
Text(n) == [i \in 1..n |-> i % 7]

ExcerptLen == 1000

HttpResponse(status_code, text) ==
    [raises |-> FALSE, status_code |-> status_code, text |-> text, error |-> ""]

\* httpx.RequestError: a connection failure or the expiry of the timeout
RequestError(message) ==
    [raises |-> TRUE, status_code |-> 0, text |-> <<>>, error |-> message]

\* What the target may answer to one call
HttpOutcomes ==
    {HttpResponse(c, Text(2)) : c \in {200, 204, 299, 300, 404, 500}}
    \cup {HttpResponse(200, Text(n)) : n \in {0, ExcerptLen, ExcerptLen + 1}}
    \cup {RequestError("All connection attempts failed"), RequestError("timed out")}

\* The outcome field of a call that has not ended yet
Pending == [raises |-> FALSE, status_code |-> 0, text |-> <<>>, error |-> "pending"]

\* The one call an httpx client is asked to make, as logged: client.get sends no body,
\* client.post sends json=(payload or {})
http_call(id, url, method, headers, payload, query, timeout_seconds) ==
    [by |-> id, url |-> url, method |-> IF method = "GET" THEN "GET" ELSE "POST",
     headers |-> headers, params |-> query,
     json |-> IF method = "GET" THEN <<>>
              ELSE IF payload = <<>> THEN <<EmptyDict>> ELSE payload,
     timeout |-> timeout_seconds, outcome |-> Pending]

\* Success taken as "not an error status"
is_success_below_400(status_code) == status_code < 400

\* httpx.Response.is_success
is_success(status_code) == 200 <= status_code /\ status_code <= 299

\* text[:n]
text_prefix(text, n) == SubSeq(text, 1, Min(n, Len(text)))

\* OUTGOING_WEBHOOK_URL or payload.target_url
target_of_default_first(payload) ==
    IF Truthy(OUTGOING_WEBHOOK_URL) THEN OUTGOING_WEBHOOK_URL ELSE payload.target_url

\* payload.target_url or OUTGOING_WEBHOOK_URL
target_of(payload) ==
    IF Truthy(payload.target_url) THEN payload.target_url ELSE OUTGOING_WEBHOOK_URL

\* The response of the synchronous branch to what the call did
sync_response(outcome) ==
    IF outcome.raises
    THEN HTTPException(502, <<"Webhook request error: ", outcome.error>>)
    ELSE JSONResponse(200, [scheduled |-> FALSE,
                            status_code |-> outcome.status_code,
                            ok |-> is_success(outcome.status_code),
                            response_excerpt |-> text_prefix(outcome.text, ExcerptLen)])

(***************************************************************************)
(* Ingest buffer                                                           *)
(***************************************************************************)

\* append on a deque built without maxlen
deque_append_unbounded(dq, x) == Append(dq, x)

\* deque.append on a deque built with maxlen: a full deque drops its leftmost
deque_append(dq, x) ==
    IF Len(dq) >= maxlen THEN Append(Tail(dq), x) ELSE Append(dq, x)

\* await request.json(), or the raw body under "_raw" when that raises
ingest_body(request) ==
    LET r == json_loads(request.raw)
    IN  IF r.raises THEN [k \in {"_raw"} |-> request.raw] ELSE r.value

\* lst[start:]
slice_from(lst, start) ==
    LET lo == IF start < 0 THEN Max(Len(lst) + start, 0) ELSE Min(start, Len(lst))
    IN  SubSeq(lst, lo + 1, Len(lst))

\* The index counted from the front, off the length the deque has by now
slice_start_from_front(limit, dq) == Len(dq) - Max(0, Min(limit, Len(dq)))

\* The index expression of list_ingested_events, read off the deque as it is
\* when the expression is evaluated
slice_start(limit, dq) == 0 - Max(0, Min(limit, Len(dq)))

(***************************************************************************)
(* Actions                                                                 *)
(*                                                                         *)
(* The model keeps the exchanges that are still in progress (a handler     *)
(* suspended, a background task not yet run) and those that ended in the   *)
(* last step; every step forgets the exchanges that had ended before it.   *)
(***************************************************************************)

LiveIds ==
    {i \in DOMAIN requests :
        i \notin DOMAIN responses \/ i \in DOMAIN background_tasks}

Live(f) == [i \in DOMAIN f \cap LiveIds |-> f[i]]

LiveLog(log) == SelectSeq(log, LAMBDA c : c.by \in LiveIds)

Respond(id, response) == responses' = dict_set(Live(responses), id, response)

NoResponse == responses' = Live(responses)

NoCalls ==
    /\ bridge_calls' = LiveLog(bridge_calls)
    /\ http_calls' = LiveLog(http_calls)

\* The middleware answers itself: nothing else happens
Rejected(id, response) ==
    /\ Respond(id, response)
    /\ NoCalls
    /\ UNCHANGED <<RECEIVED_EVENTS, clock, inflight, background_tasks>>

\* No route, or a route under another method only
NotRouted(id, endpoint) ==
    /\ Respond(id, IF endpoint = "405" THEN HTTPException(405, <<"Method Not Allowed">>)
                   ELSE HTTPException(404, <<"Not Found">>))
    /\ NoCalls
    /\ UNCHANGED <<RECEIVED_EVENTS, clock, inflight, background_tasks>>

\* health and the documentation pages
Static(id, endpoint) ==
    /\ Respond(id, JSONResponse(200, IF endpoint = "health" THEN [status |-> "ok"]
                                     ELSE [page |-> endpoint]))
    /\ NoCalls
    /\ UNCHANGED <<RECEIVED_EVENTS, clock, inflight, background_tasks>>

\* One call into the whatsapp module, then the response made of its result
Passthrough(id, request, endpoint) ==
    /\ \E outcome \in BridgeOutcomes :
          Respond(id, passthrough_response(endpoint, outcome))
    /\ bridge_calls' = Append(LiveLog(bridge_calls),
                              [by |-> id] @@ bridge_op(endpoint, request))
    /\ http_calls' = LiveLog(http_calls)
    /\ UNCHANGED <<RECEIVED_EVENTS, clock, inflight, background_tasks>>

webhook_trigger(id, request) ==
    LET payload == request.payload
        url == target_of(payload)
        headers == _build_outgoing_headers(payload.headers)
        call == http_call(id, url, payload.method, headers, payload.payload,
                          payload.query, payload.timeout_seconds)
    IN  IF ~Truthy(url)
        THEN /\ Respond(id, HTTPException(400,
                   <<"No target_url provided and OUTGOING_WEBHOOK_URL not configured">>))
             /\ http_calls' = LiveLog(http_calls)
             /\ UNCHANGED <<inflight, background_tasks>>
        ELSE IF payload.async_mode
        THEN /\ background_tasks' = dict_set(background_tasks, id, call)
             /\ Respond(id, JSONResponse(200, [scheduled |-> TRUE]))
             /\ http_calls' = LiveLog(http_calls)
             /\ UNCHANGED inflight
        ELSE /\ http_calls' = Append(LiveLog(http_calls), call)
             /\ inflight' = dict_set(inflight, id, [pc |-> "await_http"])
             /\ NoResponse
             /\ UNCHANGED background_tasks

WebhookTrigger(id, request) ==
    /\ webhook_trigger(id, request)
    /\ bridge_calls' = LiveLog(bridge_calls)
    /\ UNCHANGED <<RECEIVED_EVENTS, clock>>

webhook_ingest(id, request) ==
    /\ clock' = clock + 1
    /\ RECEIVED_EVENTS' = deque_append(RECEIVED_EVENTS,
                              [timestamp |-> clock + 1,
                               headers |-> request_headers(request),
                               body |-> ingest_body(request)])
    /\ Respond(id, JSONResponse(200, [received |-> TRUE,
                                      stored_events |-> Len(RECEIVED_EVENTS')]))
    /\ NoCalls
    /\ UNCHANGED <<inflight, background_tasks>>

\* list_ingested_events up to list(RECEIVED_EVENTS): the copy is taken
ListEventsCopy(id, request) ==
    /\ inflight' = dict_set(inflight, id,
                            [pc |-> "slice", events |-> RECEIVED_EVENTS])
    /\ NoResponse
    /\ NoCalls
    /\ UNCHANGED <<RECEIVED_EVENTS, clock, background_tasks>>

Dispatch(id, request, endpoint) ==
    IF endpoint \in {"404", "405"} THEN NotRouted(id, endpoint)
    ELSE IF endpoint \in PassthroughEndpoints THEN Passthrough(id, request, endpoint)
    ELSE IF endpoint = "webhook_trigger" THEN WebhookTrigger(id, request)
    ELSE IF endpoint = "webhook_ingest" THEN webhook_ingest(id, request)
    ELSE IF endpoint = "list_ingested_events" THEN ListEventsCopy(id, request)
    ELSE Static(id, endpoint)

\* The id given to an arriving request: the least one no kept exchange has
FreshId == SetMin({i \in 1..(Cardinality(LiveIds) + 1) : i \notin LiveIds})

\* A request arrives: the middleware, then the router, then the endpoint up
\* to its first suspension point
Receive(request) ==
    LET id == FreshId
        gate == require_webhook_api_key(request)
    IN  /\ requests' = dict_set(Live(requests), id, request)
        /\ IF gate.call_next
           THEN Dispatch(id, request, route_of(request))
           ELSE Rejected(id, gate.response)
        /\ UNCHANGED <<environ, built>>

\* list_ingested_events from the index expression on: the length of the deque
\* is read now, and the copy taken earlier is sliced
ListEventsSlice(id) ==
    /\ id \in DOMAIN inflight
    /\ inflight[id].pc = "slice"
    /\ Respond(id, JSONResponse(200,
          [events |-> slice_from(inflight[id].events,
                                 slice_start(requests[id].limit, RECEIVED_EVENTS))]))
    /\ inflight' = [i \in DOMAIN inflight \ {id} |-> inflight[i]]
    /\ requests' = Live(requests)
    /\ NoCalls
    /\ UNCHANGED <<environ, RECEIVED_EVENTS, clock, received, background_tasks, built>>

\* The log with the outcome of the call of request id filled in
Ended(log, id, outcome) ==
    [i \in 1..Len(log) |->
        IF log[i].by = id THEN [log[i] EXCEPT !.outcome = outcome] ELSE log[i]]

\* The awaited call of the synchronous branch ends: with a response, or
\* with a RequestError (the timeout bounds the wait)
HttpComplete(id) ==
    /\ id \in DOMAIN inflight
    /\ inflight[id].pc = "await_http"
    /\ \E outcome \in HttpOutcomes :
          /\ Respond(id, sync_response(outcome))
          /\ http_calls' = Ended(LiveLog(http_calls), id, outcome)
    /\ bridge_calls' = LiveLog(bridge_calls)
    /\ inflight' = [i \in DOMAIN inflight \ {id} |-> inflight[i]]
    /\ requests' = Live(requests)
    /\ UNCHANGED <<environ, RECEIVED_EVENTS, clock, received, background_tasks, built>>

\* A failed background call turned into the 502 of the synchronous branch
after_background_reports(id, outcome) ==
    IF outcome.raises
    THEN dict_set(Live(responses), id, sync_response(outcome))
    ELSE Live(responses)

\* What the caller of an asynchronous trigger has been answered, once the
\* background call has ended with outcome: the task's result is dropped and
\* an exception it raises is raised after the response has gone out
after_background(id, outcome) == Live(responses)

\* _send_webhook_sync run as a background task, which starts only after the
\* response has been sent: one call
BackgroundRun(id) ==
    /\ id \in DOMAIN background_tasks
    /\ id \in DOMAIN responses
    /\ \E outcome \in HttpOutcomes :
          /\ http_calls' = Append(LiveLog(http_calls),
                                  [background_tasks[id] EXCEPT !.outcome = outcome])
          /\ responses' = after_background(id, outcome)
    /\ bridge_calls' = LiveLog(bridge_calls)
    /\ background_tasks' = [i \in DOMAIN background_tasks \ {id} |-> background_tasks[i]]
    /\ requests' = Live(requests)
    /\ UNCHANGED <<environ, RECEIVED_EVENTS, clock, received, inflight, built>>

(***************************************************************************)
(* The whole service                                                       *)
(***************************************************************************)

MaxRequests == 2

HeaderValues == {None, "", "wrong", "secret"}

Environ(key, url, headers, secret_header, secret) ==
    [k \in {"WEBHOOK_API_KEY", "OUTGOING_WEBHOOK_URL", "OUTGOING_WEBHOOK_HEADERS",
            "OUTGOING_WEBHOOK_SECRET_HEADER", "OUTGOING_WEBHOOK_SECRET"} |->
        CASE k = "WEBHOOK_API_KEY" -> key
          [] k = "OUTGOING_WEBHOOK_URL" -> url
          [] k = "OUTGOING_WEBHOOK_HEADERS" -> headers
          [] k = "OUTGOING_WEBHOOK_SECRET_HEADER" -> secret_header
          [] OTHER -> secret]

\* One path per route, and one that no route matches
Paths ==
    {<<"openapi.json">>, <<"docs">>, <<"docs", "oauth2-redirect">>, <<"redoc">>,
     <<"health">>, <<"contacts", "search">>, <<"messages">>, <<"chats">>,
     <<"chats", "jid1">>, <<"chats", "direct-by-contact">>,
     <<"contacts", "jid1", "chats">>, <<"contacts", "jid1", "last-interaction">>,
     <<"messages", "m1", "context">>, <<"messages", "send-text">>,
     <<"messages", "send-file">>, <<"messages", "send-audio">>,
     <<"media", "download">>, <<"webhook", "trigger">>, <<"webhook", "ingest">>,
     <<"webhook", "events">>, <<"nope">>}

PostPaths ==
    {<<"messages", "send-text">>, <<"messages", "send-file">>,
     <<"messages", "send-audio">>, <<"media", "download">>,
     <<"webhook", "trigger">>, <<"webhook", "ingest">>}

MethodsOf(path) ==
    IF path \in PostPaths THEN {"POST"}
    ELSE IF path = <<"health">> THEN {"GET", "POST"}
    ELSE {"GET"}

TriggerPayload(target_url, method, payload, headers, async_mode) ==
    [WebhookTriggerRequest EXCEPT !.target_url = target_url, !.method = method,
                                  !.payload = payload, !.headers = headers,
                                  !.async_mode = async_mode]

\* The requests of the whole-service specification
Requests ==
    LET plain == {Request(m, p, k, IF p = <<"chats", "direct-by-contact">>
                                   THEN [x \in {"sender_phone_number"} |-> "+15550100"]
                                   ELSE EmptyDict) :
                     m \in {"GET", "POST"}, p \in Paths, k \in HeaderValues}
        wellFormed == {r \in plain : r.method \in MethodsOf(r.path)}
    IN  UNION {
          CASE r.path = <<"webhook", "trigger">> ->
                 {[r EXCEPT !.payload = TriggerPayload(t, m, <<>>, <<>>, a)] :
                     t \in {None, "http://target"}, m \in {"POST", "GET"}, a \in BOOLEAN}
            [] r.path = <<"webhook", "ingest">> ->
                 {[r EXCEPT !.raw = b] : b \in {JsonEvent, "plain text"}}
            [] r.path = <<"webhook", "events">> ->
                 {[r EXCEPT !.limit = n] : n \in {0, 1, 20}}
            [] OTHER -> {r}
          : r \in wellFormed}

Environs ==
    {Environ(key, url, None, None, None) :
        key \in {None, "", "secret"}, url \in {None, "http://default"}}

\* The state after import, under one of the given environments, with the
\* deque as given
Started(environs, events) ==
    /\ environ \in environs
    /\ RECEIVED_EVENTS \in events
    /\ clock = Len(RECEIVED_EVENTS)
    /\ received = 0
    /\ requests = EmptyDict
    /\ responses = EmptyDict
    /\ inflight = EmptyDict
    /\ background_tasks = EmptyDict
    /\ bridge_calls = <<>>
    /\ http_calls = <<>>
    /\ built = [applied |-> FALSE, override |-> <<>>, headers |-> EmptyDict]

Init == Started(Environs, {<<>>})

Arrive ==
    /\ received < MaxRequests
    /\ received' = received + 1
    /\ \E request \in Requests : Receive(request)

Slice == \E id \in DOMAIN inflight : ListEventsSlice(id)

Complete == \E id \in DOMAIN inflight : HttpComplete(id)

Background == \E id \in DOMAIN background_tasks : BackgroundRun(id)

Next == Arrive \/ Slice \/ Complete \/ Background

Spec == Init /\ [][Next]_vars

(***************************************************************************)
(* The ingest buffer under a client that sends one request at a time       *)
(***************************************************************************)

MaxIngests == 202

IngestRequest(key, raw) ==
    [Request("POST", <<"webhook", "ingest">>, key, EmptyDict) EXCEPT !.raw = raw]

EventsRequest(key, limit) ==
    [Request("GET", <<"webhook", "events">>, key, EmptyDict) EXCEPT !.limit = limit]

BufferRequests ==
    {IngestRequest(k, JsonEvent) : k \in {None, "secret"}}
    \cup {EventsRequest("secret", n) : n \in {-1, 0, 1, 5, maxlen, maxlen + 1}}

InitBuffer == Started({Environ("secret", None, None, None, None)}, {<<>>})

ArriveSerial ==
    /\ clock < MaxIngests
    /\ inflight = EmptyDict
    /\ \E request \in BufferRequests : Receive(request)
    /\ UNCHANGED received

NextBuffer == ArriveSerial \/ Slice

SpecBuffer == InitBuffer /\ [][NextBuffer]_vars

(***************************************************************************)
(* The ingest buffer under concurrent ingests and reads                    *)
(***************************************************************************)

MaxConcurrent == 3

\* The deque after n accepted ingests of JsonEvent, n <= maxlen
Filled(n) ==
    [i \in 1..n |-> [timestamp |-> i,
                     headers |-> request_headers(IngestRequest("secret", JsonEvent)),
                     body |-> ingest_body(IngestRequest("secret", JsonEvent))]]

ConcurrentRequests ==
    {IngestRequest("secret", JsonEvent)}
    \cup {EventsRequest("secret", n) : n \in {-1, 0, 1, 2, maxlen, maxlen + 1}}

\* The service starts empty, or is observed from the state that maxlen - 1
\* accepted ingests lead to
InitConcurrent ==
    Started({Environ("secret", None, None, None, None)}, {<<>>, Filled(maxlen - 1)})

ArriveConcurrent ==
    /\ received < MaxConcurrent
    /\ received' = received + 1
    /\ \E request \in ConcurrentRequests : Receive(request)

NextConcurrent == ArriveConcurrent \/ Slice

SpecConcurrent == InitConcurrent /\ [][NextConcurrent]_vars

(***************************************************************************)
(* _build_outgoing_headers on its own                                      *)
(***************************************************************************)

Dict2(k1, v1, k2, v2) == [k \in {k1, k2} |-> IF k = k1 THEN v1 ELSE v2]

HeaderEnvirons ==
    {Environ(key, None, headers, secret_header, secret) :
        key \in {None, "secret"},
        headers \in {None, "", JsonMalformed, JsonList, JsonDictA, JsonDictFull},
        secret_header \in {None, "X-Sig"},
        secret \in {None, "", "s"}}

Overrides ==
    {<<>>, <<EmptyDict>>,
     <<Dict2("A", "2", "B", "3")>>,
     <<Dict2("Content-Type", "text/html", "B", "3")>>,
     <<Dict2("content-type", "text/html", "A", "2")>>,
     <<Dict2("X-Webhook-Api-Key", "mine", "X-Sig", "mine")>>,
     <<Dict2("B", "<int 7>", "A", "2")>>,
     <<Dict2("<int 7>", "3", "X-Sig", "<int 7>")>>}

InitHeaders == Started(HeaderEnvirons, {<<>>})

BuildHeaders ==
    /\ \E o \in Overrides :
          built' = [applied |-> TRUE, override |-> o,
                    headers |-> _build_outgoing_headers(o)]
    /\ UNCHANGED <<environ, RECEIVED_EVENTS, clock, received, requests, responses,
                   inflight, background_tasks, bridge_calls, http_calls>>

SpecHeaders == InitHeaders /\ [][BuildHeaders]_vars

(***************************************************************************)
(* Properties                                                              *)
(***************************************************************************)

Last(seq) == seq[Len(seq)]

Range(seq) == {seq[i] : i \in 1..Len(seq)}

Completed == DOMAIN responses

NonExempt(id) == requests[id].path \notin EXEMPT_PATHS

\* The request carried the configured secret
CarriesSecret(request) == Truthy(WEBHOOK_API_KEY) /\ request.key = WEBHOOK_API_KEY

GateDetails ==
    {<<"Server misconfiguration: WEBHOOK_API_KEY not set">>,
     <<"Missing X-Webhook-Api-Key header">>, <<"Invalid webhook API key">>}

\* The response was made by the middleware itself
ByGate(response) ==
    /\ response.status_code \in {401, 403, 500}
    /\ response.content.detail \in GateDetails

\* The ids whose request had an effect: a call into the whatsapp module, an
\* outgoing call made or scheduled, a handler suspended mid-way
Effective ==
    {c.by : c \in Range(bridge_calls)} \cup {c.by : c \in Range(http_calls)}
    \cup DOMAIN background_tasks \cup DOMAIN inflight

\* C1: with a secret configured, a request to a non-exempt path is answered
\* 401 when the header is absent and 403 when it differs from the secret, and
\* is handed to the router when it is equal; and every effect (a stored event,
\* a call into the whatsapp module, an outgoing call made or scheduled) is due
\* to a request that carried the secret.
C1_GateGuardsHandlers ==
    /\ \A id \in Completed :
          (NonExempt(id) /\ Truthy(WEBHOOK_API_KEY)) =>
             /\ requests[id].key = None => responses[id].status_code = 401
             /\ (requests[id].key # None /\ requests[id].key # WEBHOOK_API_KEY)
                   => responses[id].status_code = 403
             /\ requests[id].key = WEBHOOK_API_KEY => ~ByGate(responses[id])
    /\ \A id \in Effective : CarriesSecret(requests[id])
    /\ \A i \in 1..Len(RECEIVED_EVENTS) :
          /\ "x-webhook-api-key" \in DOMAIN RECEIVED_EVENTS[i].headers
          /\ Truthy(WEBHOOK_API_KEY)
          /\ RECEIVED_EVENTS[i].headers["x-webhook-api-key"] = WEBHOOK_API_KEY

\* An event is stored, and a request with a wrong secret has just been refused
C1_Witness ==
    /\ RECEIVED_EVENTS # <<>>
    /\ \E id \in Completed :
          /\ requests[id].path = <<"webhook", "ingest">>
          /\ requests[id].key = "wrong"
          /\ responses[id].status_code = 403

\* C2: with WEBHOOK_API_KEY unset or empty, every request to a non-exempt path
\* is answered with the 500 misconfiguration error whatever its header, and
\* nothing is ever stored, called or scheduled.
C2_UnsetKeyFailsClosed ==
    ~Truthy(WEBHOOK_API_KEY) =>
       /\ \A id \in DOMAIN requests :
             NonExempt(id) =>
                /\ id \in Completed
                /\ responses[id] = HTTPException(500,
                       <<"Server misconfiguration: WEBHOOK_API_KEY not set">>)
       /\ RECEIVED_EVENTS = <<>>
       /\ Effective = {}

\* The key is configured empty and a request whose header is empty too, so
\* equal to it, has been refused
C2_Witness ==
    /\ WEBHOOK_API_KEY = ""
    /\ \E id \in Completed :
          /\ requests[id].path = <<"webhook", "ingest">>
          /\ requests[id].key = ""
          /\ responses[id].status_code = 500

\* C8: an authenticated GET /chats/direct-by-contact?sender_phone_number=P
\* makes exactly one call into the whatsapp module, get_direct_chat_by_contact
\* with argument P.
C8_DirectByContactReachesItsHandler ==
    \A id \in Completed :
       (/\ requests[id].method = "GET"
        /\ requests[id].path = <<"chats", "direct-by-contact">>
        /\ CarriesSecret(requests[id]))
       => LET calls == SelectSeq(bridge_calls, LAMBDA c : c.by = id)
          IN  /\ Len(calls) = 1
              /\ calls[1].op = "get_direct_chat_by_contact"
              /\ calls[1].args = [k \in {"sender_phone_number"} |->
                                     requests[id].params["sender_phone_number"]]

\* The event stored by the n-th accepted ingest of the buffer specifications
NthEvent(n) ==
    [timestamp |-> n,
     headers |-> [k \in {"x-webhook-api-key"} |-> "secret"],
     body |-> [k \in {"event"} |-> "msg"]]

\* The last n elements of seq, oldest first
Suffix(seq, n) == [i \in 1..n |-> seq[Len(seq) - n + i]]

IsIngest(id) ==
    requests[id].method = "POST" /\ requests[id].path = <<"webhook", "ingest">>

IsEvents(id) ==
    requests[id].method = "GET" /\ requests[id].path = <<"webhook", "events">>

\* C3: after k accepted ingests the deque holds exactly the last min(k, 200)
\* ingested events in insertion order, never more than 200, and an ingest
\* reports as stored_events the length of the deque right after its append;
\* after 201 ingests 200 events are stored and the first one is gone.
C3_FifoEviction ==
    LET k == clock
        n == IF k <= 200 THEN k ELSE 200
    IN  /\ Len(RECEIVED_EVENTS) = n
        /\ Len(RECEIVED_EVENTS) <= 200
        /\ RECEIVED_EVENTS = [i \in 1..n |-> NthEvent(k - n + i)]
        /\ \A id \in Completed :
              (IsIngest(id) /\ responses[id].status_code = 200) =>
                 responses[id].content =
                    [received |-> TRUE, stored_events |-> Len(RECEIVED_EVENTS)]
        /\ k = 201 =>
              /\ Len(RECEIVED_EVENTS) = 200
              /\ \A i \in 1..Len(RECEIVED_EVENTS) : RECEIVED_EVENTS[i] # NthEvent(1)

\* The 201st ingest has just been answered: 200 events are stored, the oldest
\* of them the second one ingested
C3_Witness ==
    /\ clock = 201
    /\ Len(RECEIVED_EVENTS) = 200
    /\ RECEIVED_EVENTS[1] = NthEvent(2)
    /\ \E id \in Completed : IsIngest(id) /\ responses[id].status_code = 200

\* C4: GET /webhook/events with limit N returns exactly the most recent N'
\* records of the deque, N' being N clamped to [0, length], oldest first, for
\* every integer N; N = 0 and N < 0 return no records.
C4_EventsReturnsLastN ==
    \A id \in Completed :
       (IsEvents(id) /\ responses[id].status_code = 200) =>
          LET N == requests[id].limit
              clamped == Max(0, Min(N, Len(RECEIVED_EVENTS)))
          IN  responses[id].content.events = Suffix(RECEIVED_EVENTS, clamped)

\* What a read returns is made of ingested events in the order of ingestion,
\* without gap or repetition
WellFormed(events) ==
    \A i \in 1..Len(events) :
       /\ events[i].timestamp \in 1..clock
       /\ events[i] = NthEvent(events[i].timestamp)
       /\ i > 1 => events[i].timestamp = events[i - 1].timestamp + 1

\* One step: a read that starts copies the deque as it is, the copy stays as
\* taken while the read is suspended, and a read that ends with limit N > 0
\* returns the last min(N, length of the copy) elements of the copy and leaves
\* the deque as it is
ReadStep ==
    /\ \A id \in DOMAIN inflight' \ DOMAIN inflight :
          /\ inflight'[id].events = RECEIVED_EVENTS
          /\ RECEIVED_EVENTS' = RECEIVED_EVENTS
    /\ \A id \in DOMAIN inflight \cap DOMAIN inflight' : inflight'[id] = inflight[id]
    /\ \A id \in DOMAIN inflight \ DOMAIN inflight' :
          /\ id \in DOMAIN responses'
          /\ RECEIVED_EVENTS' = RECEIVED_EVENTS
          /\ requests[id].limit > 0 =>
                responses'[id].content.events =
                   Suffix(inflight[id].events,
                          Min(requests[id].limit, Len(inflight[id].events)))

\* C10: under any interleaving of ingests with the two steps of a read, every
\* response to a read with limit N > 0 is the chronological suffix, of length
\* min(N, snapshot length), of the deque as it was when the snapshot was
\* taken; a response holds only ingested events, in order and without
\* repetition, and a read leaves the deque unchanged.
C10_ConcurrentReadsAreSnapshotSuffixes ==
    /\ [](\A id \in Completed :
             (IsEvents(id) /\ responses[id].status_code = 200) =>
                WellFormed(responses[id].content.events))
    /\ [][ReadStep]_vars

\* A read has just returned 199 events, copied before two further ingests:
\* the deque is full by now and has already dropped the oldest event returned
C10_Witness ==
    \E id \in Completed :
       /\ IsEvents(id)
       /\ requests[id].limit > 0
       /\ Len(responses[id].content.events) = 199
       /\ Len(RECEIVED_EVENTS) = 200
       /\ Last(responses[id].content.events).timestamp < clock
       /\ responses[id].content.events[1].timestamp < RECEIVED_EVENTS[1].timestamp

IsTrigger(id) ==
    /\ requests[id].method = "POST"
    /\ requests[id].path = <<"webhook", "trigger">>
    /\ CarriesSecret(requests[id])

\* A target URL exists for the request: its own, or the configured default
Resolvable(id) ==
    Truthy(requests[id].payload.target_url) \/ Truthy(OUTGOING_WEBHOOK_URL)

CallsBy(id) == SelectSeq(http_calls, LAMBDA c : c.by = id)

\* C5: an asynchronous trigger with a resolvable target is answered
\* {scheduled: true} in the step that receives it, before its outgoing call
\* is made; and whatever that call does afterwards, failure and timeout
\* included, the answer stays as given.
C5_FireAndForget ==
    \A id \in DOMAIN requests :
       (IsTrigger(id) /\ requests[id].payload.async_mode /\ Resolvable(id)) =>
          /\ id \in Completed
          /\ responses[id] = JSONResponse(200, [scheduled |-> TRUE])

\* The background call of an answered asynchronous trigger has failed
C5_Witness ==
    \E id \in Completed :
       /\ IsTrigger(id)
       /\ requests[id].payload.async_mode
       /\ responses[id] = JSONResponse(200, [scheduled |-> TRUE])
       /\ Len(CallsBy(id)) = 1
       /\ CallsBy(id)[1].outcome.raises

\* The two outcomes of a synchronous trigger: the call's status, 2xx flag and
\* first 1000 characters, or a 502 that carries the error text
TwoOutcomes(id) ==
    /\ Len(CallsBy(id)) = 1
    /\ LET outcome == CallsBy(id)[1].outcome
           text == outcome.text
       IN  IF outcome.raises
           THEN responses[id] =
                   HTTPException(502, <<"Webhook request error: ", outcome.error>>)
           ELSE responses[id] =
                   JSONResponse(200,
                      [scheduled |-> FALSE,
                       status_code |-> outcome.status_code,
                       ok |-> (outcome.status_code \in 200..299),
                       response_excerpt |->
                          [i \in 1..(IF Len(text) <= 1000 THEN Len(text) ELSE 1000)
                              |-> text[i]]])

C9_OneAttemptPerTrigger ==
    \A id \in DOMAIN requests :
       IsTrigger(id) =>
          LET attempts ==
                 Range(CallsBy(id)) \cup
                 (IF id \in DOMAIN background_tasks THEN {background_tasks[id]} ELSE {})
              count ==
                 Len(CallsBy(id)) + (IF id \in DOMAIN background_tasks THEN 1 ELSE 0)
          IN  /\ count <= 1
              /\ ~Resolvable(id) =>
                    /\ id \in Completed
                    /\ responses[id].status_code = 400
                    /\ count = 0
              /\ \A c \in attempts :
                    c.url = IF Truthy(requests[id].payload.target_url)
                            THEN requests[id].payload.target_url
                            ELSE OUTGOING_WEBHOOK_URL
              /\ (id \in Completed /\ responses[id].status_code = 502) => count = 1

\* A synchronous trigger with its own target, a default being configured too,
\* has failed: one call was made, to the request's target
C9_Witness ==
    \E id \in Completed :
       /\ IsTrigger(id)
       /\ OUTGOING_WEBHOOK_URL = "http://default"
       /\ requests[id].payload.target_url = "http://target"
       /\ responses[id].status_code = 502
       /\ Len(CallsBy(id)) = 1
       /\ CallsBy(id)[1].url = "http://target"

\* The caller's header overrides that are strings
StringOverrides(override) ==
    IF override = <<>> THEN EmptyDict
    ELSE [k \in {x \in DOMAIN override[1] :
                    x \notin NonStrings /\ override[1][x] \notin NonStrings}
            |-> override[1][k]]

\* C7: the outgoing headers are the configured defaults, overlaid by the
\* secret header set to the secret when there is one, overlaid by the caller's
\* string overrides; Content-Type: application/json is added exactly when no
\* Content-Type is set by then.  Header names are the keys of the mapping.
C7_HeaderMergeLaw ==
    LET defaults == DEFAULT_OUTGOING_HEADERS
        secret == OUTGOING_WEBHOOK_SECRET
        hasSecret == secret # None /\ secret # ""
        over == StringOverrides(built.override)
        named == DOMAIN defaults \cup DOMAIN over
                 \cup (IF hasSecret THEN {OUTGOING_WEBHOOK_SECRET_HEADER} ELSE {})
        h == built.headers
    IN  built.applied =>
          /\ DOMAIN h = named \cup {"Content-Type"}
          /\ \A name \in named :
                h[name] = IF name \in DOMAIN over THEN over[name]
                          ELSE IF hasSecret /\ name = OUTGOING_WEBHOOK_SECRET_HEADER
                          THEN secret
                          ELSE defaults[name]
          /\ "Content-Type" \notin named => h["Content-Type"] = "application/json"
          /\ (/\ defaults = [k \in {"A"} |-> "1"]
              /\ OUTGOING_WEBHOOK_SECRET_HEADER = "X-Webhook-Api-Key"
              /\ secret = "s"
              /\ built.override = <<Dict2("A", "2", "B", "3")>>)
             => h = [k \in {"A", "B", "X-Webhook-Api-Key", "Content-Type"} |->
                        CASE k = "A" -> "2"
                          [] k = "B" -> "3"
                          [] k = "X-Webhook-Api-Key" -> "s"
                          [] OTHER -> "application/json"]

\* The example of the law: defaults {A: 1}, secret s, overrides {A: 2, B: 3}
C7_Witness ==
    /\ built.applied
    /\ DEFAULT_OUTGOING_HEADERS = [k \in {"A"} |-> "1"]
    /\ OUTGOING_WEBHOOK_SECRET_HEADER = "X-Webhook-Api-Key"
    /\ OUTGOING_WEBHOOK_SECRET = "s"
    /\ built.override = <<Dict2("A", "2", "B", "3")>>
    /\ built.headers["X-Webhook-Api-Key"] = "s"

====
